---- MODULE Spec2Model ----
(***************************************************************************)
(* Model of the netbird Terraform provider: the provider root (Configure), *)
(* the HTTP client wrapper (Client.doRequest) and the create / read /      *)
(* update / delete handlers of the eight resources, driven by a host that  *)
(* invokes one handler at a time against an API whose answers are inputs.  *)
(***************************************************************************)
EXTENDS Integers, Sequences, FiniteSets, TLC

VARIABLES
    environ,         \* process environment: NETBIRD_ENDPOINT / _BEARER_TOKEN / _ACCESS_TOKEN
    providerConfig,  \* the provider block handed to NetbirdProvider.Configure
    configured,      \* NetbirdProvider.Configure has run
    providerDiags,   \* diagnostics of NetbirdProvider.Configure
    client,          \* resp.ResourceData / resp.DataSourceData: the shared *Client
    tfstate,         \* Terraform state of the managed resource instance
    lastOp,          \* the handler that ran last: requests sent, diagnostics, outcome
    crashed,         \* the provider process died of a Go panic
    inflight         \* per goroutine: the request a handler is taking through doRequest

vars ==
    <<environ, providerConfig, configured, providerDiags, client, tfstate, lastOp, crashed,
      inflight>>

-----------------------------------------------------------------------------
(* terraform-plugin-framework types.String: null, unknown or a known value *)

StringNull == [k |-> "null", v |-> ""]

StringUnknown == [k |-> "unknown", v |-> ""]

StringValue(s) == [k |-> "value", v |-> s]

ValueString(x) == IF x.k = "value" THEN x.v ELSE ""

IsNull(x) == x.k = "null"

\* derefString: a nil pointer becomes null
derefString(present, s) == IF present THEN StringValue(s) ELSE StringNull

\* x.ValueStringPointer(): nil for null, else a pointer to the value
ValueStringPointer(x) == IF x.k = "null" THEN [nil |-> TRUE, v |-> ""] ELSE [nil |-> FALSE, v |-> x.v]

(* types.List of strings: null, unknown or known elements *)

ListNull == [k |-> "null", elems |-> <<>>]

ListValue(elems) == [k |-> "value", elems |-> elems]

(* diag.Diagnostics: AddError appends an error diagnostic *)

ErrorDiag(summary, detail) == [severity |-> "error", summary |-> summary, detail |-> detail]

HasError(diags) == \E i \in 1..Len(diags) : diags[i].severity = "error"

(* Go error values and []byte results: nil or a value *)

NilErr == [nil |-> TRUE, msg |-> ""]

Errorf(msg) == [nil |-> FALSE, msg |-> msg]

NilBytes == [nil |-> TRUE, bytes |-> ""]

Bytes(b) == [nil |-> FALSE, bytes |-> b]

-----------------------------------------------------------------------------
(* Provider root *)

DefaultEndpoint == "https://api.netbird.io"

NewClient(baseURL, bearerToken, accessToken) ==
    [nil |-> FALSE, BaseUrl |-> baseURL, BearerToken |-> bearerToken, AccessToken |-> accessToken]

NoProviderConfig == [endpoint |-> StringNull, bearer_token |-> StringNull, access_token |-> StringNull]

\* values a provider block can give an attribute: omitted, empty, set
ConfigValues(s) == {StringNull, StringValue(""), StringValue(s)}

Environs ==
    [NETBIRD_ENDPOINT : {"", "https://env.example"},
     NETBIRD_BEARER_TOKEN : {"", "env-bearer"},
     NETBIRD_ACCESS_TOKEN : {"", "env-access"}]

ConfigureWrongPrecedence(data, env) ==
    LET endpoint0 == IF env.NETBIRD_ENDPOINT # "" THEN env.NETBIRD_ENDPOINT
                     ELSE ValueString(data.endpoint)
        endpoint == IF endpoint0 = "" THEN DefaultEndpoint ELSE endpoint0
        bearerToken == IF env.NETBIRD_BEARER_TOKEN # "" THEN env.NETBIRD_BEARER_TOKEN
                       ELSE ValueString(data.bearer_token)
        accessToken == IF env.NETBIRD_ACCESS_TOKEN # "" THEN env.NETBIRD_ACCESS_TOKEN
                       ELSE ValueString(data.access_token)
        missing == IF bearerToken = "" /\ accessToken = ""
                   THEN <<ErrorDiag("Bearer token and access token missing.", "")>> ELSE <<>>
        conflict == IF bearerToken # "" /\ accessToken # ""
                    THEN <<ErrorDiag("Conflicting arguments: Bearer token and access token.", "")>>
                    ELSE <<>>
    IN [diags |-> missing \o conflict, client |-> NewClient(endpoint, bearerToken, accessToken)]

ConfigureNoConflictCheck(data, env) ==
    LET endpoint0 == IF ValueString(data.endpoint) # "" THEN ValueString(data.endpoint)
                     ELSE env.NETBIRD_ENDPOINT
        endpoint == IF endpoint0 = "" THEN DefaultEndpoint ELSE endpoint0
        bearerToken == IF ValueString(data.bearer_token) # "" THEN ValueString(data.bearer_token)
                       ELSE env.NETBIRD_BEARER_TOKEN
        accessToken == IF ValueString(data.access_token) # "" THEN ValueString(data.access_token)
                       ELSE env.NETBIRD_ACCESS_TOKEN
        missing == IF bearerToken = "" /\ accessToken = ""
                   THEN <<ErrorDiag("Bearer token and access token missing.", "")>> ELSE <<>>
    IN [diags |-> missing, client |-> NewClient(endpoint, bearerToken, accessToken)]

\* NetbirdProvider.Configure: resolve the three values, report the credential
\* errors, and hand the client to resources and data sources in every case
Configure(data, env) ==
    LET endpoint0 == IF ValueString(data.endpoint) # "" THEN ValueString(data.endpoint)
                     ELSE env.NETBIRD_ENDPOINT
        endpoint == IF endpoint0 = "" THEN DefaultEndpoint ELSE endpoint0
        bearerToken == IF ValueString(data.bearer_token) # "" THEN ValueString(data.bearer_token)
                       ELSE env.NETBIRD_BEARER_TOKEN
        accessToken == IF ValueString(data.access_token) # "" THEN ValueString(data.access_token)
                       ELSE env.NETBIRD_ACCESS_TOKEN
        missing == IF bearerToken = "" /\ accessToken = ""
                   THEN <<ErrorDiag("Bearer token and access token missing.", "")>> ELSE <<>>
        conflict == IF bearerToken # "" /\ accessToken # ""
                    THEN <<ErrorDiag("Conflicting arguments: Bearer token and access token.", "")>>
                    ELSE <<>>
    IN [diags |-> missing \o conflict, client |-> NewClient(endpoint, bearerToken, accessToken)]

-----------------------------------------------------------------------------
(* HTTP client wrapper *)

ErrorStatus == 400

\* response bodies: empty, a plain-text message, a JSON object without "id",
\* a JSON object with a string "id"
EmptyBody == ""

TextBody == "bad request"

ObjectBody == "{}"

ObjectWithIdBody == "{\"id\":\"r1\"}"

TransportError == [kind |-> "transport_error", status |-> 0, body |-> ""]

HttpResponse(status, body) == [kind |-> "http", status |-> status, body |-> body]

\* what httpClient.Do and io.ReadAll can give for one request: the transport
\* fails, reading the body fails, or a status arrives with a body
Responses ==
    {TransportError, [kind |-> "read_error", status |-> 200, body |-> ""]}
      \cup {HttpResponse(s, b) : s \in {200, 400, 404},
                                 b \in {EmptyBody, TextBody, ObjectBody, ObjectWithIdBody}}

Authorization(scheme, credentials) == [scheme |-> scheme, credentials |-> credentials]

\* a request without a body (or with one the model does not look into)
NoBody == [json |-> "none"]

\* http.NewRequest(method, url, body), the URL made of a path and a query string
NewRequestTo(method, path, query, body) ==
    [method |-> method, path |-> path, query |-> query, body |-> body,
     Authorization |-> Authorization("", "")]

NewRequestBody(method, path, body) == NewRequestTo(method, path, <<>>, body)

NewRequest(method, path) == NewRequestBody(method, path, NoBody)

\* the record of one doRequest call: the request as sent, the response, the results
CallResult(req, resp, body, err) ==
    [method |-> req.method, path |-> req.path, query |-> req.query,
     Authorization |-> req.Authorization, reqBody |-> req.body, resp |-> resp,
     body |-> body, err |-> err]

doRequestStrictlyAbove(s, req0, resp) ==
    LET req1 == IF s.BearerToken # ""
                THEN [req0 EXCEPT !.Authorization = Authorization("Bearer", s.BearerToken)]
                ELSE req0
        req == IF s.AccessToken # ""
               THEN [req1 EXCEPT !.Authorization = Authorization("Token", s.AccessToken)]
               ELSE req1
    IN IF resp.kind = "transport_error" THEN CallResult(req, resp, NilBytes, Errorf("transport error"))
       ELSE IF resp.kind = "read_error" THEN CallResult(req, resp, NilBytes, Errorf("read error"))
       ELSE IF resp.status > ErrorStatus THEN CallResult(req, resp, NilBytes, Errorf(resp.body))
       ELSE CallResult(req, resp, Bytes(resp.body), NilErr)

doRequestNotFoundAsNil(s, req0, resp) ==
    LET req1 == IF s.BearerToken # ""
                THEN [req0 EXCEPT !.Authorization = Authorization("Bearer", s.BearerToken)]
                ELSE req0
        req == IF s.AccessToken # ""
               THEN [req1 EXCEPT !.Authorization = Authorization("Token", s.AccessToken)]
               ELSE req1
    IN IF resp.kind = "transport_error" THEN CallResult(req, resp, NilBytes, Errorf("transport error"))
       ELSE IF resp.kind = "read_error" THEN CallResult(req, resp, NilBytes, Errorf("read error"))
       ELSE IF resp.status = 404 THEN CallResult(req, resp, NilBytes, NilErr)
       ELSE IF resp.status >= ErrorStatus THEN CallResult(req, resp, NilBytes, Errorf(resp.body))
       ELSE CallResult(req, resp, Bytes(resp.body), NilErr)

\* Client.doRequest
doRequest(s, req0, resp) ==
    LET req1 == IF s.BearerToken # ""
                THEN [req0 EXCEPT !.Authorization = Authorization("Bearer", s.BearerToken)]
                ELSE req0
        req == IF s.AccessToken # ""
               THEN [req1 EXCEPT !.Authorization = Authorization("Token", s.AccessToken)]
               ELSE req1
    IN IF resp.kind = "transport_error" THEN CallResult(req, resp, NilBytes, Errorf("transport error"))
       ELSE IF resp.kind = "read_error" THEN CallResult(req, resp, NilBytes, Errorf("read error"))
       ELSE IF resp.status >= ErrorStatus THEN CallResult(req, resp, NilBytes, Errorf(resp.body))
       ELSE CallResult(req, resp, Bytes(resp.body), NilErr)

doRequestHeadersSpendingToken(s, req) ==
    LET req1 == IF s.BearerToken # ""
                THEN [req EXCEPT !.Authorization = Authorization("Bearer", s.BearerToken)]
                ELSE req
        req2 == IF s.AccessToken # ""
                THEN [req1 EXCEPT !.Authorization = Authorization("Token", s.AccessToken)]
                ELSE req1
    IN [s |-> [s EXCEPT !.AccessToken = ""], req |-> req2]

\* the memory doRequest writes before it sends: the header of the request it
\* was handed; the receiver *Client is only read
doRequestHeaders(s, req) ==
    LET req1 == IF s.BearerToken # ""
                THEN [req EXCEPT !.Authorization = Authorization("Bearer", s.BearerToken)]
                ELSE req
        req2 == IF s.AccessToken # ""
                THEN [req1 EXCEPT !.Authorization = Authorization("Token", s.AccessToken)]
                ELSE req1
    IN [s |-> s, req |-> req2]

\* encoding/json.Unmarshal of a response body into an API record
jsonUnmarshal(bytes) ==
    IF bytes = EmptyBody
    THEN [err |-> Errorf("unexpected end of JSON input"), hasId |-> FALSE, id |-> ""]
    ELSE IF bytes = TextBody
    THEN [err |-> Errorf("invalid character 'b' looking for beginning of value"),
          hasId |-> FALSE, id |-> ""]
    ELSE IF bytes = ObjectBody
    THEN [err |-> NilErr, hasId |-> FALSE, id |-> ""]
    ELSE [err |-> NilErr, hasId |-> TRUE, id |-> "r1"]

\* network objects as the API returns them: without a description, with an
\* empty one, with a non-empty one
NetworkEmptyDescriptionBody == "{\"id\":\"r1\",\"name\":\"net\",\"description\":\"\"}"

NetworkDescribedBody == "{\"id\":\"r1\",\"name\":\"net\",\"description\":\"from api\"}"

\* a *string of an API record: nil or a pointer to a value
NilString == [nil |-> TRUE, v |-> ""]

StringPointer(v) == [nil |-> FALSE, v |-> v]

\* json.Unmarshal into netbirdApi.Network: the Description *string
jsonUnmarshalNetwork(bytes) ==
    [Description |-> IF bytes = NetworkEmptyDescriptionBody THEN StringPointer("")
                     ELSE IF bytes = NetworkDescribedBody THEN StringPointer("from api")
                     ELSE NilString]

-----------------------------------------------------------------------------
(* Handler results *)

NoState ==
    [present |-> FALSE, kind |-> "", id |-> StringNull, network_id |-> StringNull,
     description |-> StringNull, rules |-> <<>>]

\* the handler returned after adding an error diagnostic; state is not written
Failed(calls, diags) ==
    [calls |-> calls, diags |-> diags, outcome |-> "error", data |-> NoState]

\* the handler returned without an error and without writing state
Returned(calls) ==
    [calls |-> calls, diags |-> <<>>, outcome |-> "returned", data |-> NoState]

\* resp.State.Set(ctx, &data)
StateSet(calls, data) ==
    [calls |-> calls, diags |-> <<>>, outcome |-> "state_set", data |-> data]

\* resp.State.RemoveResource(ctx)
RemoveResource(calls) ==
    [calls |-> calls, diags |-> <<>>, outcome |-> "state_removed", data |-> NoState]

\* a Go run-time panic inside the handler
Panicked(calls) ==
    [calls |-> calls, diags |-> <<>>, outcome |-> "panic", data |-> NoState]

\* result of a readIntoModel helper: the request it sent, its diagnostics, the model
ReadResult(calls, diags, data) == [calls |-> calls, diags |-> diags, data |-> data]

\* the tail shared by the handlers that refresh the model before saving it:
\* append the diagnostics, return on error, else save the model
SaveAfterRead(calls, rd) ==
    IF HasError(rd.diags) THEN Failed(calls \o rd.calls, rd.diags)
    ELSE StateSet(calls \o rd.calls, rd.data)

-----------------------------------------------------------------------------
(* Requests shared by the handlers *)

\* a readIntoModel helper: GET the entity, report a failed request or a body
\* that does not decode, clear the ID when doRequest gave no body
FetchIntoModel(c, path, data, resp) ==
    LET call == doRequest(c, NewRequest("GET", path), resp)
        responseData == jsonUnmarshal(call.body.bytes)
    IN IF ~call.err.nil
       THEN ReadResult(<<call>>, <<ErrorDiag("Error fetching network", call.err.msg)>>, data)
       ELSE IF call.body.nil
       THEN ReadResult(<<call>>, <<>>, [data EXCEPT !.id = StringNull])
       ELSE IF ~responseData.err.nil
       THEN ReadResult(<<call>>, <<ErrorDiag("Error parsing response", responseData.err.msg)>>, data)
       ELSE ReadResult(<<call>>, <<>>, data)

\* a Read handler built on a readIntoModel helper
ReadHandler(rd) ==
    IF HasError(rd.diags) THEN Failed(rd.calls, rd.diags) ELSE StateSet(rd.calls, rd.data)

SendDeleteAlwaysRemoves(c, method, path, summary, resp) ==
    RemoveResource(<<doRequest(c, NewRequest(method, path), resp)>>)

\* a Delete handler: one request, then RemoveResource unless it failed
SendDelete(c, method, path, summary, resp) ==
    LET call == doRequest(c, NewRequest(method, path), resp)
    IN IF ~call.err.nil THEN Failed(<<call>>, <<ErrorDiag(summary, call.err.msg)>>)
       ELSE RemoveResource(<<call>>)

-----------------------------------------------------------------------------
(* NetworkResource *)

\* readIntoModel, the description: updated only if the response or the model
\* has a non-empty one, and then only from a response that carries the field
NetworkResourceReadDescription(responseDescription, description) ==
    IF (~responseDescription.nil /\ responseDescription.v # "") \/ ValueString(description) # ""
    THEN IF ~responseDescription.nil THEN StringValue(responseDescription.v)
         ELSE description    \* the else branch assigns to responseData, not to data
    ELSE description

\* the part of readIntoModel that follows a decoded response
NetworkResourceReadFields(rd) ==
    IF HasError(rd.diags) \/ rd.calls[1].body.nil THEN rd
    ELSE [rd EXCEPT !.data.description =
              NetworkResourceReadDescription(
                  jsonUnmarshalNetwork(rd.calls[1].body.bytes).Description, rd.data.description)]

NetworkResourceReadIntoModelCollection(c, data, resp) ==
    NetworkResourceReadFields(FetchIntoModel(c, <<"api", "networks">>, data, resp))

NetworkResourceReadIntoModel(c, data, resp) ==
    NetworkResourceReadFields(
        FetchIntoModel(c, <<"api", "networks", ValueString(data.id)>>, data, resp))

NetworkResourceCreate(c, data, r1, r2) ==
    LET call == doRequest(c, NewRequest("POST", <<"api", "networks">>), r1)
        responseData == jsonUnmarshal(call.body.bytes)
    IN IF ~call.err.nil
       THEN Failed(<<call>>, <<ErrorDiag("Error making API request", call.err.msg)>>)
       ELSE IF ~responseData.err.nil
       THEN Failed(<<call>>, <<ErrorDiag("Error parsing response", responseData.err.msg)>>)
       ELSE IF ~responseData.hasId
       THEN Panicked(<<call>>)   \* responseData["id"].(string) on a missing key
       ELSE SaveAfterRead(<<call>>,
                NetworkResourceReadIntoModel(c, [data EXCEPT !.id = StringValue(responseData.id)], r2))

NetworkResourceRead(c, data, resp) == ReadHandler(NetworkResourceReadIntoModel(c, data, resp))

NetworkResourceUpdateNoRefresh(c, data, r1, r2) ==
    LET call == doRequest(c, NewRequest("PUT", <<"api", "networks", ValueString(data.id)>>), r1)
    IN IF ~call.err.nil
       THEN Failed(<<call>>, <<ErrorDiag("Error updating network", call.err.msg)>>)
       ELSE StateSet(<<call>>, data)

NetworkResourceUpdateIgnoringError(c, data, r1, r2) ==
    LET call == doRequest(c, NewRequest("PUT", <<"api", "networks", ValueString(data.id)>>), r1)
    IN SaveAfterRead(<<call>>, NetworkResourceReadIntoModel(c, data, r2))

NetworkResourceUpdate(c, data, r1, r2) ==
    LET call == doRequest(c, NewRequest("PUT", <<"api", "networks", ValueString(data.id)>>), r1)
    IN IF ~call.err.nil
       THEN Failed(<<call>>, <<ErrorDiag("Error updating network", call.err.msg)>>)
       ELSE SaveAfterRead(<<call>>, NetworkResourceReadIntoModel(c, data, r2))

NetworkResourceDelete(c, data, resp) ==
    SendDelete(c, "DELETE", <<"api", "networks", ValueString(data.id)>>, "Error deleting network", resp)

-----------------------------------------------------------------------------
(* SetupKeyResource *)

SetupKeyResourceReadIntoModel(c, data, resp) ==
    NetworkResourceReadFields(
        FetchIntoModel(c, <<"api", "networks", ValueString(data.id)>>, data, resp))

SetupKeyResourceCreate(c, data, r1, r2) ==
    LET call == doRequest(c, NewRequest("POST", <<"api", "networks">>), r1)
        responseData == jsonUnmarshal(call.body.bytes)
    IN IF ~call.err.nil
       THEN Failed(<<call>>, <<ErrorDiag("Error making API request", call.err.msg)>>)
       ELSE IF ~responseData.err.nil
       THEN Failed(<<call>>, <<ErrorDiag("Error parsing response", responseData.err.msg)>>)
       ELSE IF ~responseData.hasId
       THEN Panicked(<<call>>)   \* responseData["id"].(string) on a missing key
       ELSE SaveAfterRead(<<call>>,
                SetupKeyResourceReadIntoModel(c, [data EXCEPT !.id = StringValue(responseData.id)], r2))

SetupKeyResourceRead(c, data, resp) == ReadHandler(SetupKeyResourceReadIntoModel(c, data, resp))

SetupKeyResourceUpdate(c, data, r1, r2) ==
    LET call == doRequest(c, NewRequest("PUT", <<"api", "networks", ValueString(data.id)>>), r1)
    IN IF ~call.err.nil
       THEN Failed(<<call>>, <<ErrorDiag("Error updating network", call.err.msg)>>)
       ELSE SaveAfterRead(<<call>>, SetupKeyResourceReadIntoModel(c, data, r2))

SetupKeyResourceDelete(c, data, resp) ==
    SendDelete(c, "DELETE", <<"api", "networks", ValueString(data.id)>>, "Error deleting network", resp)

-----------------------------------------------------------------------------
(* NetworkRouterResource *)

\* a *[]string of an API record: nil or a pointer to a slice
derefStringSlice(s) == IF s.nil THEN <<>> ELSE s.v

\* convertStringSliceToListValue: an empty slice becomes the null list
convertStringSliceToListValue(strings) ==
    IF Len(strings) = 0 THEN ListNull ELSE ListValue(strings)

\* convertListToStringSlice: a null or unknown list becomes the empty slice
convertListToStringSlice(list) == IF list.k = "value" THEN list.elems ELSE <<>>

\* json.Marshal of a netbirdApi.NetworkRouterRequest, which is also how the API
\* writes the netbirdApi.NetworkRouter it stored
jsonMarshalNetworkRouter(apiData) ==
    LET RECURSIVE join(_)
        join(strings) ==
            IF Len(strings) = 0 THEN ""
            ELSE IF Len(strings) = 1 THEN "\"" \o Head(strings) \o "\""
            ELSE "\"" \o Head(strings) \o "\"," \o join(Tail(strings))
        bool(b) == IF b THEN "true" ELSE "false"
    IN "{\"id\":\"r1\",\"peer\":"
         \o (IF apiData.Peer.nil THEN "null" ELSE "\"" \o apiData.Peer.v \o "\"")
         \o ",\"peer_groups\":[" \o join(apiData.PeerGroups) \o "]"
         \o ",\"metric\":" \o ToString(apiData.Metric)
         \o ",\"masquerade\":" \o bool(apiData.Masquerade)
         \o ",\"enabled\":" \o bool(apiData.Enabled) \o "}"

\* the router objects the API can answer with, each with the text it is written as
NetworkRouterBodies ==
    {<<jsonMarshalNetworkRouter(r), r>> :
        r \in [Peer : {NilString, StringPointer("peer-1")},
               PeerGroups : {<<>>, <<"group-1">>},
               Metric : {0, 10, 999},
               Masquerade : BOOLEAN,
               Enabled : BOOLEAN]}

\* json.Unmarshal into netbirdApi.NetworkRouter: a body that carries the router's
\* fields decodes to them, a JSON null to a nil pointer; a body that carries none
\* of them decodes to the zero values
jsonUnmarshalNetworkRouter(bytes) ==
    LET written == {e \in NetworkRouterBodies : e[1] = bytes}
    IN IF written = {}
       THEN [Peer |-> NilString, PeerGroups |-> [nil |-> TRUE, v |-> <<>>], Metric |-> 0,
             Enabled |-> FALSE, Masquerade |-> FALSE]
       ELSE LET r == (CHOOSE e \in written : TRUE)[2]
            IN [Peer |-> r.Peer, PeerGroups |-> [nil |-> FALSE, v |-> r.PeerGroups],
                Metric |-> r.Metric, Enabled |-> r.Enabled, Masquerade |-> r.Masquerade]

\* modelToApiRequest: the netbirdApi.NetworkRouterRequest marshalled into the body
modelToApiRequest(data) ==
    [json |-> "network_router",
     Peer |-> ValueStringPointer(data.peer),
     PeerGroups |-> convertListToStringSlice(data.peer_groups),
     Metric |-> data.metric,
     Masquerade |-> data.masquerade,
     Enabled |-> data.enabled]

\* the part of readIntoModel that follows a decoded response
NetworkRouterResourceReadFields(rd) ==
    IF HasError(rd.diags) \/ rd.calls[1].body.nil THEN rd
    ELSE LET responseData == jsonUnmarshalNetworkRouter(rd.calls[1].body.bytes)
         IN [rd EXCEPT !.data.peer = derefString(~responseData.Peer.nil, responseData.Peer.v),
                       !.data.peer_groups =
                           convertStringSliceToListValue(derefStringSlice(responseData.PeerGroups)),
                       !.data.metric = responseData.Metric,
                       !.data.enabled = responseData.Enabled,
                       !.data.masquerade = responseData.Masquerade]

NetworkRouterResourceReadIntoModel(c, data, resp) ==
    NetworkRouterResourceReadFields(
        FetchIntoModel(c, <<"api", "networks", ValueString(data.network_id), "routers",
                            ValueString(data.id)>>, data, resp))

NetworkRouterResourceCreate(c, data, r1, r2) ==
    LET call == doRequest(c, NewRequestBody("POST",
                    <<"api", "networks", ValueString(data.network_id), "routers">>,
                    modelToApiRequest(data)), r1)
        responseData == jsonUnmarshal(call.body.bytes)
    IN IF ~call.err.nil
       THEN Failed(<<call>>, <<ErrorDiag("Error making API request", call.err.msg)>>)
       ELSE IF ~responseData.err.nil
       THEN Failed(<<call>>, <<ErrorDiag("Error parsing response", responseData.err.msg)>>)
       ELSE SaveAfterRead(<<call>>,
                NetworkRouterResourceReadIntoModel(c,
                    [data EXCEPT !.id = StringValue(responseData.id)], r2))

NetworkRouterResourceRead(c, data, resp) ==
    ReadHandler(NetworkRouterResourceReadIntoModel(c, data, resp))

NetworkRouterResourceUpdate(c, data, r1, r2) ==
    LET call == doRequest(c, NewRequestBody("PUT",
                    <<"api", "networks", ValueString(data.network_id), "routers",
                      ValueString(data.id)>>, modelToApiRequest(data)), r1)
    IN IF ~call.err.nil
       THEN Failed(<<call>>, <<ErrorDiag("Error updating network", call.err.msg)>>)
       ELSE SaveAfterRead(<<call>>, NetworkRouterResourceReadIntoModel(c, data, r2))

NetworkRouterResourceDelete(c, data, resp) ==
    SendDelete(c, "DELETE", <<"api", "networks", ValueString(data.network_id), "routers",
                              ValueString(data.id)>>, "Error deleting network", resp)

-----------------------------------------------------------------------------
(* NetworkResourceResource *)

NetworkResourceResourceReadIntoModel(c, data, resp) ==
    FetchIntoModel(c, <<"api", "networks", ValueString(data.network_id), "resources",
                        ValueString(data.id)>>, data, resp)

NetworkResourceResourceCreate(c, data, r1, r2) ==
    LET call == doRequest(c, NewRequest("POST",
                    <<"api", "networks", ValueString(data.network_id), "resources">>), r1)
        responseData == jsonUnmarshal(call.body.bytes)
    IN IF ~call.err.nil
       THEN Failed(<<call>>, <<ErrorDiag("Error making API request", call.err.msg)>>)
       ELSE IF ~responseData.err.nil
       THEN Failed(<<call>>, <<ErrorDiag("Error parsing response", responseData.err.msg)>>)
       ELSE SaveAfterRead(<<call>>,
                NetworkResourceResourceReadIntoModel(c,
                    [data EXCEPT !.id = StringValue(responseData.id)], r2))

NetworkResourceResourceRead(c, data, resp) ==
    ReadHandler(NetworkResourceResourceReadIntoModel(c, data, resp))

NetworkResourceResourceUpdate(c, data, r1, r2) ==
    LET call == doRequest(c, NewRequest("PUT",
                    <<"api", "networks", ValueString(data.network_id), "resources",
                      ValueString(data.id)>>), r1)
    IN IF ~call.err.nil
       THEN Failed(<<call>>, <<ErrorDiag("Error updating network", call.err.msg)>>)
       ELSE SaveAfterRead(<<call>>, NetworkResourceResourceReadIntoModel(c, data, r2))

NetworkResourceResourceDelete(c, data, resp) ==
    SendDelete(c, "DELETE", <<"api", "networks", ValueString(data.network_id), "resources",
                              ValueString(data.id)>>, "Error deleting network", resp)

-----------------------------------------------------------------------------
(* NameserverGroupResource *)

readNameserverGroupIntoModel(c, data, resp) ==
    FetchIntoModel(c, <<"api", "dns", "nameservers", ValueString(data.id)>>, data, resp)

NameserverGroupResourceCreate(c, data, r1, r2) ==
    LET call == doRequest(c, NewRequest("POST", <<"api", "dns", "nameservers">>), r1)
        responseData == jsonUnmarshal(call.body.bytes)
    IN IF ~call.err.nil
       THEN Failed(<<call>>, <<ErrorDiag("Error making API request", call.err.msg)>>)
       ELSE IF ~responseData.err.nil
       THEN Failed(<<call>>, <<ErrorDiag("Error parsing response", responseData.err.msg)>>)
       ELSE SaveAfterRead(<<call>>,
                readNameserverGroupIntoModel(c,
                    [data EXCEPT !.id = StringValue(responseData.id)], r2))

NameserverGroupResourceRead(c, data, resp) ==
    ReadHandler(readNameserverGroupIntoModel(c, data, resp))

NameserverGroupResourceUpdate(c, data, r1, r2) ==
    LET call == doRequest(c, NewRequest("PUT",
                    <<"api", "dns", "nameservers", ValueString(data.id)>>), r1)
    IN IF ~call.err.nil
       THEN Failed(<<call>>, <<ErrorDiag("Error updating network", call.err.msg)>>)
       ELSE SaveAfterRead(<<call>>, readNameserverGroupIntoModel(c, data, r2))

NameserverGroupResourceDelete(c, data, resp) ==
    SendDelete(c, "DELETE", <<"api", "dns", "nameservers", ValueString(data.id)>>,
               "Error deleting network", resp)

-----------------------------------------------------------------------------
(* GroupResource *)

\* a group as the API returns it with every field, "issued" included
GroupIssuedBody ==
    "{\"id\":\"r1\",\"name\":\"g\",\"peers_count\":2,\"resources_count\":1,\"issued\":\"api\"}"

\* json.Unmarshal into netbirdApi.Group: Id and the counts are plain fields (zero
\* when the body omits them), Issued is a pointer (nil when the body omits it)
jsonUnmarshalGroup(bytes) ==
    LET responseData == jsonUnmarshal(bytes)
    IN [err |-> responseData.err,
        Id |-> responseData.id,
        PeersCount |-> IF bytes = GroupIssuedBody THEN 2 ELSE 0,
        ResourcesCount |-> IF bytes = GroupIssuedBody THEN 1 ELSE 0,
        Issued |-> IF bytes = GroupIssuedBody THEN StringPointer("api") ELSE NilString]

GroupResourceCreate(c, data, r1) ==
    LET call == doRequest(c, NewRequest("POST", <<"api", "groups">>), r1)
        responseData == jsonUnmarshalGroup(call.body.bytes)
    IN IF ~call.err.nil
       THEN Failed(<<call>>, <<ErrorDiag("Error creating group", call.err.msg)>>)
       ELSE IF ~responseData.err.nil
       THEN Failed(<<call>>, <<ErrorDiag("Error parsing response", responseData.err.msg)>>)
       ELSE StateSet(<<call>>,
                [data EXCEPT !.id = StringValue(responseData.Id),
                             !.peers_count = [k |-> "value", n |-> responseData.PeersCount],
                             !.resources_count = [k |-> "value", n |-> responseData.ResourcesCount],
                             !.issued = IF ~responseData.Issued.nil
                                        THEN StringValue(responseData.Issued.v) ELSE @])

GroupResourceRead(c, data, resp) ==
    LET call == doRequest(c, NewRequest("GET", <<"api", "groups", ValueString(data.id)>>), resp)
        responseData == jsonUnmarshal(call.body.bytes)
    IN IF ~call.err.nil
       THEN Failed(<<call>>, <<ErrorDiag("Error fetching group", call.err.msg)>>)
       ELSE IF call.body.nil
       THEN Returned(<<call>>)
       ELSE IF ~responseData.err.nil
       THEN Failed(<<call>>, <<ErrorDiag("Error parsing response", responseData.err.msg)>>)
       ELSE StateSet(<<call>>, data)

GroupResourceUpdate(c, data, r1) ==
    LET call == doRequest(c, NewRequest("PUT", <<"api", "groups", ValueString(data.id)>>), r1)
        responseData == jsonUnmarshalGroup(call.body.bytes)
    IN IF ~call.err.nil
       THEN Failed(<<call>>, <<ErrorDiag("Error updating group", call.err.msg)>>)
       ELSE IF ~responseData.err.nil
       THEN Failed(<<call>>, <<ErrorDiag("Error parsing response", responseData.err.msg)>>)
       ELSE StateSet(<<call>>,
                [data EXCEPT !.id = StringValue(responseData.Id),
                             !.peers_count = [k |-> "value", n |-> responseData.PeersCount],
                             !.resources_count = [k |-> "value", n |-> responseData.ResourcesCount],
                             !.issued = IF ~responseData.Issued.nil
                                        THEN StringValue(responseData.Issued.v) ELSE @])

GroupResourceDelete(c, data, resp) ==
    SendDelete(c, "DELETE", <<"api", "groups", ValueString(data.id)>>, "Error deleting network", resp)

-----------------------------------------------------------------------------
(* PolicyResource *)

\* convertPolicyFromApiModel: the model is built from the response alone: its
\* ID and its rules (the response bodies drawn here carry no rules)
convertPolicyFromApiModel(data, responseData) ==
    [data EXCEPT !.id = derefString(responseData.hasId, responseData.id), !.rules = <<>>]

\* a *ResourceModel of a rule / a *netbirdApi.Resource of a request: nil or a value
NilResource == [nil |-> TRUE, id |-> "", type |-> ""]

Resource(id, type) == [nil |-> FALSE, id |-> id, type |-> type]

convertToRulesResourcesApiModel(modelResource) ==
    IF modelResource.nil THEN NilResource ELSE Resource(modelResource.id, modelResource.type)

\* convertToRulesUpdateApiModel: the loop over the rules appends one API rule and
\* returns from inside its body, so it ends in its first iteration; the rule's
\* DestinationResource is converted from modelRule.SourceResource
convertToRulesUpdateApiModel(modelRules) ==
    IF Len(modelRules) = 0 THEN <<>>
    ELSE <<[Name |-> modelRules[1].name,
            SourceResource |-> convertToRulesResourcesApiModel(modelRules[1].source_resource),
            DestinationResource |->
                convertToRulesResourcesApiModel(modelRules[1].source_resource)]>>

\* netbirdApi.PolicyCreate / PolicyUpdate as marshalled into the request
PolicyRequestBody(data) ==
    [json |-> "policy", Rules |-> convertToRulesUpdateApiModel(data.rules)]

PolicyResourceCreate(c, data, r1) ==
    LET call == doRequest(c, NewRequestBody("POST", <<"api", "policies">>,
                                            PolicyRequestBody(data)), r1)
        createdPolicy == jsonUnmarshal(call.body.bytes)
    IN IF ~call.err.nil
       THEN Failed(<<call>>, <<ErrorDiag("API Error", call.err.msg)>>)
       ELSE IF ~createdPolicy.err.nil
       THEN Failed(<<call>>, <<ErrorDiag("JSON Decoding Error", createdPolicy.err.msg)>>)
       ELSE StateSet(<<call>>, convertPolicyFromApiModel(data, createdPolicy))

PolicyResourceRead(c, data, resp) ==
    LET call == doRequest(c, NewRequest("GET", <<"api", "policies", ValueString(data.id)>>), resp)
        responseData == jsonUnmarshal(call.body.bytes)
    IN IF ~call.err.nil
       THEN Failed(<<call>>, <<ErrorDiag("Error fetching policy", call.err.msg)>>)
       ELSE IF call.body.nil
       THEN Returned(<<call>>)
       ELSE IF ~responseData.err.nil
       THEN Failed(<<call>>, <<ErrorDiag("Error parsing response", responseData.err.msg)>>)
       ELSE StateSet(<<call>>, convertPolicyFromApiModel(data, responseData))

PolicyResourceUpdate(c, data, r1) ==
    LET call == doRequest(c, NewRequestBody("PUT", <<"api", "policies", ValueString(data.id)>>,
                                            PolicyRequestBody(data)), r1)
        createdPolicy == jsonUnmarshal(call.body.bytes)
    IN IF ~call.err.nil
       THEN Failed(<<call>>, <<ErrorDiag("API Error", call.err.msg)>>)
       ELSE IF ~createdPolicy.err.nil
       THEN Failed(<<call>>, <<ErrorDiag("JSON Decoding Error", createdPolicy.err.msg)>>)
       ELSE StateSet(<<call>>, convertPolicyFromApiModel(data, createdPolicy))

PolicyResourceDelete(c, data, resp) ==
    SendDelete(c, "DELETE", <<"api", "policies", ValueString(data.id)>>, "Error deleting network", resp)

-----------------------------------------------------------------------------
(* DnsSettingsResource *)

\* updateDnsSettings: PUT the settings; the body or an error diagnostic
updateDnsSettings(c, resp) ==
    LET call == doRequest(c, NewRequest("PUT", <<"api", "dns", "settings">>), resp)
    IN IF ~call.err.nil
       THEN ReadResult(<<call>>, <<ErrorDiag("Error making API request", call.err.msg)>>, NoState)
       ELSE ReadResult(<<call>>, <<>>, NoState)

readDnsSettingsIntoModel(c, data, resp) ==
    FetchIntoModel(c, <<"api", "dns", "settings">>, data, resp)

DnsSettingsResourceCreate(c, data, r1, r2) ==
    LET put == updateDnsSettings(c, r1)
        responseData == jsonUnmarshal(put.calls[1].body.bytes)
    IN IF HasError(put.diags)
       THEN Failed(put.calls, put.diags)
       ELSE IF ~responseData.err.nil
       THEN Failed(put.calls, <<ErrorDiag("Error parsing response", responseData.err.msg)>>)
       ELSE SaveAfterRead(put.calls,
                readDnsSettingsIntoModel(c, [data EXCEPT !.id = StringValue("dns-settings")], r2))

DnsSettingsResourceRead(c, data, resp) == ReadHandler(readDnsSettingsIntoModel(c, data, resp))

DnsSettingsResourceUpdate(c, data, r1, r2) ==
    LET put == updateDnsSettings(c, r1)
    IN IF HasError(put.diags)
       THEN Failed(put.calls, put.diags)
       ELSE SaveAfterRead(put.calls, readDnsSettingsIntoModel(c, data, r2))

DnsSettingsResourceDelete(c, data, resp) ==
    SendDelete(c, "PUT", <<"api", "dns", "settings">>, "Error updating network", resp)

-----------------------------------------------------------------------------
(* PeersDataSource and PeerDataSource *)

\* x.String(): the value for logging; a known string comes back quoted
String(x) ==
    IF x.k = "null" THEN "<null>"
    ELSE IF x.k = "unknown" THEN "<unknown>"
    ELSE "\"" \o x.v \o "\""

\* netbirdApi.GroupMinimum and netbirdApi.PeerBatch records of the API
PeerAlpha == [Id |-> "p1", Name |-> "alpha", Ip |-> "100.64.0.1", Groups |-> <<[Id |-> "g1", Name |-> "All", Issued |-> NilString]>>]

PeerZero == [Id |-> "", Name |-> "", Ip |-> "", Groups |-> <<>>]

\* response bodies of /api/peers and /api/peers/{id}
PeersNoneBody == "[]"

PeersOneBody ==
    "[{\"id\":\"p1\",\"name\":\"alpha\",\"ip\":\"100.64.0.1\",\"groups\":[{\"id\":\"g1\",\"name\":\"All\"}]}]"

PeersTwoBody ==
    "[{\"id\":\"p2\",\"name\":\"beta\",\"ip\":\"100.64.0.2\",\"groups\":[{\"id\":\"g2\",\"name\":\"ops\",\"issued\":\"api\"},{\"id\":\"g1\",\"name\":\"All\"}]},{\"id\":\"p1\",\"name\":\"alpha\",\"ip\":\"100.64.0.1\",\"groups\":[{\"id\":\"g1\",\"name\":\"All\"}]}]"

PeerBody ==
    "{\"id\":\"p1\",\"name\":\"alpha\",\"ip\":\"100.64.0.1\",\"groups\":[{\"id\":\"g1\",\"name\":\"All\"}]}"

PeerListBodies == {PeersNoneBody, PeersOneBody, PeersTwoBody}

\* json.Unmarshal of a body that is not JSON at all
jsonSyntaxError(bytes) ==
    IF bytes = EmptyBody THEN Errorf("unexpected end of JSON input")
    ELSE IF bytes = TextBody THEN Errorf("invalid character 'b' looking for beginning of value")
    ELSE NilErr

\* json.Unmarshal into []netbirdApi.PeerBatch
jsonUnmarshalPeerBatchList(bytes) ==
    IF ~jsonSyntaxError(bytes).nil THEN [err |-> jsonSyntaxError(bytes), list |-> <<>>]
    ELSE IF bytes = PeersNoneBody THEN [err |-> NilErr, list |-> <<>>]
    ELSE IF bytes = PeersOneBody THEN [err |-> NilErr, list |-> <<PeerAlpha>>]
    ELSE IF bytes = PeersTwoBody
    THEN [err |-> NilErr,
          list |-> <<[Id |-> "p2", Name |-> "beta", Ip |-> "100.64.0.2",
                      Groups |-> <<[Id |-> "g2", Name |-> "ops", Issued |-> StringPointer("api")],
                                   [Id |-> "g1", Name |-> "All", Issued |-> NilString]>>],
                     PeerAlpha>>]
    ELSE [err |-> Errorf("json: cannot unmarshal object into Go value of type []api.PeerBatch"),
          list |-> <<>>]

\* json.Unmarshal into []PeerDataSourceModel, whose fields are types.String: a
\* JSON string does not decode into one
jsonUnmarshalPeerModels(bytes) ==
    IF ~jsonSyntaxError(bytes).nil THEN [err |-> jsonSyntaxError(bytes)]
    ELSE IF bytes = PeersNoneBody THEN [err |-> NilErr]
    ELSE IF bytes \in PeerListBodies
    THEN [err |-> Errorf("json: cannot unmarshal string into Go struct field PeerDataSourceModel.ID of type basetypes.StringValue")]
    ELSE [err |-> Errorf("json: cannot unmarshal object into Go value of type []provider.PeerDataSourceModel")]

\* json.Unmarshal into netbirdApi.PeerBatch
jsonUnmarshalPeerBatch(bytes) ==
    IF ~jsonSyntaxError(bytes).nil THEN [err |-> jsonSyntaxError(bytes), peer |-> PeerZero]
    ELSE IF bytes \in PeerListBodies
    THEN [err |-> Errorf("json: cannot unmarshal array into Go value of type api.PeerBatch"),
          peer |-> PeerZero]
    ELSE IF bytes = PeerBody THEN [err |-> NilErr, peer |-> PeerAlpha]
    ELSE IF bytes = ObjectWithIdBody THEN [err |-> NilErr, peer |-> [PeerZero EXCEPT !.Id = "r1"]]
    ELSE [err |-> NilErr, peer |-> PeerZero]

\* convertPeerGroups: one model per group, a nil Issued becoming ""
convertPeerGroups(groups) ==
    [i \in 1..Len(groups) |->
        [id |-> StringValue(groups[i].Id), name |-> StringValue(groups[i].Name),
         issued |-> StringValue(IF groups[i].Issued.nil THEN "" ELSE groups[i].Issued.v)]]

\* the PeerDataSourceModel built from a netbirdApi.PeerBatch
PeerModel(peerBatch) ==
    [id |-> StringValue(peerBatch.Id), name |-> StringValue(peerBatch.Name),
     ip |-> StringValue(peerBatch.Ip), groups |-> convertPeerGroups(peerBatch.Groups)]

\* the configuration of a peers data source, and of a peer data source
PeersConfig(name, ip) ==
    [present |-> TRUE, kind |-> "peers", name |-> name, ip |-> ip, peers |-> <<>>]

PeerConfig(id) ==
    [present |-> TRUE, kind |-> "peer", id |-> id, name |-> StringUnknown, ip |-> StringUnknown,
     groups |-> <<>>]

\* url.Values.Encode(): key=value pairs sorted by key
Encode(queryParams) ==
    (IF "ip" \in DOMAIN queryParams THEN <<<<"ip", queryParams["ip"]>>>> ELSE <<>>)
      \o (IF "name" \in DOMAIN queryParams THEN <<<<"name", queryParams["name"]>>>> ELSE <<>>)

\* PeersDataSource.Read: GET /api/peers filtered by name and ip, one model per peer
PeersDataSourceRead(c, data, resp) ==
    LET queryParams ==
            [key \in {k \in {"name", "ip"} : ~IsNull(data[k]) /\ data[k].k # "unknown"}
                |-> ValueString(data[key])]
        call == doRequest(c, NewRequestTo("GET", <<"api", "peers">>, Encode(queryParams), NoBody),
                          resp)
        peerBatchList == jsonUnmarshalPeerBatchList(call.body.bytes)
    IN IF ~call.err.nil
       THEN Failed(<<call>>, <<ErrorDiag("Error Making API Request", call.err.msg)>>)
       ELSE IF ~peerBatchList.err.nil
       THEN Failed(<<call>>, <<ErrorDiag("Error Parsing API Response", peerBatchList.err.msg)>>)
       ELSE StateSet(<<call>>,
                [data EXCEPT !.peers = [i \in 1..Len(peerBatchList.list) |->
                                           PeerModel(peerBatchList.list[i])]])

\* PeersDataSource.Read as internal/provider/peers_data_source.go has it: no
\* query, the body decoded into a local slice of models, data.Peers never assigned
PeersDataSourceReadDirect(c, data, resp) ==
    LET call == doRequest(c, NewRequest("GET", <<"api", "peers">>), resp)
        peers == jsonUnmarshalPeerModels(call.body.bytes)
    IN IF ~call.err.nil
       THEN Failed(<<call>>, <<ErrorDiag("Error Making API Request", call.err.msg)>>)
       ELSE IF ~peers.err.nil
       THEN Failed(<<call>>, <<ErrorDiag("Error Parsing API Response", peers.err.msg)>>)
       ELSE StateSet(<<call>>, data)

\* PeerDataSource.Read: the ID check compares data.ID.String() with "" and does
\* not return; then GET /api/peers/{id}
PeerDataSourceRead(c, data, resp) ==
    LET idDiags == IF String(data.id) = ""
                   THEN <<[severity |-> "error", summary |-> "ID is invalid",
                           detail |-> "ID must be set to a valid string", path |-> "id"]>>
                   ELSE <<>>
        call == doRequest(c, NewRequest("GET", <<"api", "peers", ValueString(data.id)>>), resp)
        peerBatch == jsonUnmarshalPeerBatch(call.body.bytes)
    IN IF ~call.err.nil
       THEN Failed(<<call>>, idDiags \o <<ErrorDiag("Error Making API Request", call.err.msg)>>)
       ELSE IF ~peerBatch.err.nil
       THEN Failed(<<call>>,
                   idDiags \o <<ErrorDiag("Error Parsing API Response", peerBatch.err.msg)>>)
       ELSE [StateSet(<<call>>,
                 [data EXCEPT !.id = StringValue(peerBatch.peer.Id),
                              !.name = StringValue(peerBatch.peer.Name),
                              !.ip = StringValue(peerBatch.peer.Ip),
                              !.groups = convertPeerGroups(peerBatch.peer.Groups)])
             EXCEPT !.diags = idDiags]

-----------------------------------------------------------------------------
(* The host: one resource instance, one handler at a time *)

Kinds ==
    {"network", "group", "policy", "network_router", "network_resource",
     "nameserver_group", "setup_key", "dns_settings"}

\* NetbirdProvider.Resources: the constructors the provider registers
Resources ==
    {"network", "group", "policy", "network_router", "network_resource", "nameserver_group"}

\* NetbirdProvider.DataSources
DataSources == {"peers", "peer"}

\* the plan of a network router: the schema's attributes
NetworkRouterPlan(peer, peer_groups, metric, masquerade, enabled) ==
    [present |-> TRUE, kind |-> "network_router", id |-> StringUnknown,
     network_id |-> StringValue("n1"), peer |-> peer, peer_groups |-> peer_groups,
     metric |-> metric, masquerade |-> masquerade, enabled |-> enabled]

\* the plan of a Create: the computed id is unknown, the required network_id is
\* set; the computed peers_count, resources_count and issued of a group are unknown
CreatePlan(kind) ==
    IF kind = "network_router"
    THEN NetworkRouterPlan(StringValue("peer-1"), ListNull, 999, TRUE, TRUE)
    ELSE IF kind = "group"
    THEN [present |-> TRUE, kind |-> kind, id |-> StringUnknown, network_id |-> StringNull,
          description |-> StringNull, rules |-> <<>>,
          peers_count |-> [k |-> "unknown", n |-> 0],
          resources_count |-> [k |-> "unknown", n |-> 0], issued |-> StringUnknown]
    ELSE [present |-> TRUE, kind |-> kind, id |-> StringUnknown,
          network_id |-> IF kind = "network_resource" THEN StringValue("n1") ELSE StringNull,
          description |-> StringNull, rules |-> <<>>]

CreateHandler(kind, c, data, r1, r2) ==
    CASE kind = "network" -> NetworkResourceCreate(c, data, r1, r2)
      [] kind = "setup_key" -> SetupKeyResourceCreate(c, data, r1, r2)
      [] kind = "network_router" -> NetworkRouterResourceCreate(c, data, r1, r2)
      [] kind = "network_resource" -> NetworkResourceResourceCreate(c, data, r1, r2)
      [] kind = "nameserver_group" -> NameserverGroupResourceCreate(c, data, r1, r2)
      [] kind = "dns_settings" -> DnsSettingsResourceCreate(c, data, r1, r2)
      [] kind = "group" -> GroupResourceCreate(c, data, r1)
      [] kind = "policy" -> PolicyResourceCreate(c, data, r1)

ReadHandlerOf(kind, c, data, r1) ==
    CASE kind = "network" -> NetworkResourceRead(c, data, r1)
      [] kind = "setup_key" -> SetupKeyResourceRead(c, data, r1)
      [] kind = "network_router" -> NetworkRouterResourceRead(c, data, r1)
      [] kind = "network_resource" -> NetworkResourceResourceRead(c, data, r1)
      [] kind = "nameserver_group" -> NameserverGroupResourceRead(c, data, r1)
      [] kind = "dns_settings" -> DnsSettingsResourceRead(c, data, r1)
      [] kind = "group" -> GroupResourceRead(c, data, r1)
      [] kind = "policy" -> PolicyResourceRead(c, data, r1)

UpdateHandler(kind, c, data, r1, r2) ==
    CASE kind = "network" -> NetworkResourceUpdate(c, data, r1, r2)
      [] kind = "setup_key" -> SetupKeyResourceUpdate(c, data, r1, r2)
      [] kind = "network_router" -> NetworkRouterResourceUpdate(c, data, r1, r2)
      [] kind = "network_resource" -> NetworkResourceResourceUpdate(c, data, r1, r2)
      [] kind = "nameserver_group" -> NameserverGroupResourceUpdate(c, data, r1, r2)
      [] kind = "dns_settings" -> DnsSettingsResourceUpdate(c, data, r1, r2)
      [] kind = "group" -> GroupResourceUpdate(c, data, r1)
      [] kind = "policy" -> PolicyResourceUpdate(c, data, r1)

DeleteHandler(kind, c, data, r1) ==
    CASE kind = "network" -> NetworkResourceDelete(c, data, r1)
      [] kind = "setup_key" -> SetupKeyResourceDelete(c, data, r1)
      [] kind = "network_router" -> NetworkRouterResourceDelete(c, data, r1)
      [] kind = "network_resource" -> NetworkResourceResourceDelete(c, data, r1)
      [] kind = "nameserver_group" -> NameserverGroupResourceDelete(c, data, r1)
      [] kind = "dns_settings" -> DnsSettingsResourceDelete(c, data, r1)
      [] kind = "group" -> GroupResourceDelete(c, data, r1)
      [] kind = "policy" -> PolicyResourceDelete(c, data, r1)

NoOp == [resource |-> "", op |-> "none", prior |-> NoState, plan |-> NoState, calls |-> <<>>,
         diags |-> <<>>, outcome |-> "none"]

\* the handler returns (or panics): Terraform keeps the state the response carries
Finish(kind, op, plan, res) ==
    /\ lastOp' = [resource |-> kind, op |-> op, prior |-> tfstate, plan |-> plan,
                  calls |-> res.calls, diags |-> res.diags, outcome |-> res.outcome]
    /\ tfstate' = IF res.outcome = "state_set" THEN res.data
                  ELSE IF res.outcome = "state_removed" THEN NoState
                  ELSE tfstate
    /\ crashed' = (res.outcome = "panic")
    /\ UNCHANGED <<environ, providerConfig, configured, providerDiags, client, inflight>>

\* resources receive the client the provider handed over
CanRun == configured /\ ~client.nil /\ ~crashed

ConfigureFrom(configs) ==
    /\ ~configured
    /\ \E data \in configs :
         LET res == Configure(data, environ)
         IN /\ providerConfig' = data
            /\ providerDiags' = res.diags
            /\ client' = res.client
    /\ configured' = TRUE
    /\ UNCHANGED <<environ, tfstate, lastOp, crashed, inflight>>

\* the provider blocks under which resource handlers are run
ProviderConfigure ==
    ConfigureFrom({NoProviderConfig,
                   [NoProviderConfig EXCEPT !.bearer_token = StringValue("cfg-bearer")]})

ProviderConfigureAny ==
    ConfigureFrom([endpoint : ConfigValues("https://cfg.example"),
                   bearer_token : ConfigValues("cfg-bearer"),
                   access_token : ConfigValues("cfg-access")])

\* the API's answer to a handler's second request: there is one to draw only
\* when the first request was answered with a success status
SecondResponses(r1) ==
    IF r1.kind = "http" /\ r1.status < ErrorStatus THEN Responses ELSE {TransportError}

Create ==
    /\ CanRun
    /\ ~tfstate.present
    /\ \E kind \in Kinds, r1 \in Responses : \E r2 \in SecondResponses(r1) :
         Finish(kind, "Create", CreatePlan(kind), CreateHandler(kind, client, CreatePlan(kind), r1, r2))

Read ==
    /\ CanRun
    /\ tfstate.present
    /\ \E r1 \in Responses :
         Finish(tfstate.kind, "Read", tfstate, ReadHandlerOf(tfstate.kind, client, tfstate, r1))

Update ==
    /\ CanRun
    /\ tfstate.present
    /\ \E r1 \in Responses : \E r2 \in SecondResponses(r1) :
         Finish(tfstate.kind, "Update", tfstate,
                UpdateHandler(tfstate.kind, client, tfstate, r1, r2))

Delete ==
    /\ CanRun
    /\ tfstate.present
    /\ \E r1 \in Responses :
         Finish(tfstate.kind, "Delete", tfstate, DeleteHandler(tfstate.kind, client, tfstate, r1))

NumGoroutines == 2

\* the goroutines on which the host runs handlers at the same time
Goroutines == 1..NumGoroutines

Idle ==
    [pc |-> "idle", req |-> NewRequest("", <<>>),
     result |-> CallResult(NewRequest("", <<>>), TransportError, NilBytes, NilErr)]

InitWith(environs) ==
    /\ environ \in environs
    /\ providerConfig = NoProviderConfig
    /\ configured = FALSE
    /\ providerDiags = <<>>
    /\ client = [nil |-> TRUE, BaseUrl |-> "", BearerToken |-> "", AccessToken |-> ""]
    /\ tfstate = NoState
    /\ lastOp = NoOp
    /\ crashed = FALSE
    /\ inflight = [w \in Goroutines |-> Idle]

\* the environments under which resource handlers are run
Init == InitWith({e \in Environs : e.NETBIRD_ENDPOINT = "" /\ e.NETBIRD_BEARER_TOKEN = ""})

Next == ProviderConfigure \/ Create \/ Read \/ Update \/ Delete

Spec == Init /\ [][Next]_vars

\* The network resource with its description: plans and API answers that set,
\* empty or omit it

NetworkDescriptions == {StringNull, StringValue(""), StringValue("local")}

WriteResponses == {HttpResponse(200, ObjectWithIdBody), HttpResponse(400, TextBody)}

NetworkResponses ==
    {HttpResponse(200, "{\"id\":\"r1\",\"name\":\"net\"}"),
     HttpResponse(200, NetworkEmptyDescriptionBody), HttpResponse(200, NetworkDescribedBody),
     HttpResponse(404, TextBody), TransportError}

NetworkSecondResponses(r1) ==
    IF r1.status < ErrorStatus THEN NetworkResponses ELSE {TransportError}

CreateNetwork ==
    /\ CanRun
    /\ ~tfstate.present
    /\ \E d \in NetworkDescriptions, r1 \in WriteResponses : \E r2 \in NetworkSecondResponses(r1) :
         LET plan == [CreatePlan("network") EXCEPT !.description = d]
         IN Finish("network", "Create", plan, NetworkResourceCreate(client, plan, r1, r2))

ReadNetwork ==
    /\ CanRun
    /\ tfstate.present
    /\ \E r1 \in NetworkResponses :
         Finish("network", "Read", tfstate, NetworkResourceRead(client, tfstate, r1))

UpdateNetwork ==
    /\ CanRun
    /\ tfstate.present
    /\ \E d \in NetworkDescriptions, r1 \in WriteResponses : \E r2 \in NetworkSecondResponses(r1) :
         Finish("network", "Update", [tfstate EXCEPT !.description = d],
                NetworkResourceUpdate(client, [tfstate EXCEPT !.description = d], r1, r2))

NextNetwork == ProviderConfigure \/ CreateNetwork \/ ReadNetwork \/ UpdateNetwork

SpecNetwork == Init /\ [][NextNetwork]_vars

\* The policy resource with its rules

MaxRules == 2

\* the rules of a plan: up to MaxRules rules
PolicyRules ==
    LET ResourceModels == {NilResource, Resource("res-a", "host")}
    IN UNION {[1..n -> [name : {"allow", "deny"}, source_resource : ResourceModels,
                        destination_resource : ResourceModels]] : n \in 0..MaxRules}

CreatePolicy ==
    /\ CanRun
    /\ ~tfstate.present
    /\ \E rules \in PolicyRules, r1 \in WriteResponses :
         LET plan == [CreatePlan("policy") EXCEPT !.rules = rules]
         IN Finish("policy", "Create", plan, PolicyResourceCreate(client, plan, r1))

UpdatePolicy ==
    /\ CanRun
    /\ tfstate.present
    /\ \E rules \in PolicyRules, r1 \in WriteResponses :
         LET plan == [tfstate EXCEPT !.rules = rules]
         IN Finish("policy", "Update", plan, PolicyResourceUpdate(client, plan, r1))

NextPolicy == ProviderConfigure \/ CreatePolicy \/ UpdatePolicy

SpecPolicy == Init /\ [][NextPolicy]_vars

\* The network router with its peer, peer_groups, metric, masquerade and enabled

NetworkRouterPlans ==
    {NetworkRouterPlan(peer, peer_groups, settings[1], settings[2], settings[3]) :
        peer \in {StringNull, StringValue("peer-1")},
        peer_groups \in {ListNull, ListValue(<<>>), ListValue(<<"group-1">>)},
        settings \in {<<999, TRUE, TRUE>>, <<10, FALSE, TRUE>>, <<10, TRUE, FALSE>>}}

\* the answers to the GET that follows a write: the router as the API stored it
\* from the request, a router object without the optional fields, or not found
ReadResponsesAfter(r1, apiData) ==
    IF r1.status < ErrorStatus
    THEN {HttpResponse(200, jsonMarshalNetworkRouter(apiData)),
          HttpResponse(200, ObjectWithIdBody), HttpResponse(404, TextBody)}
    ELSE {TransportError}

CreateNetworkRouter ==
    /\ CanRun
    /\ ~tfstate.present
    /\ \E plan \in NetworkRouterPlans, r1 \in WriteResponses :
         \E r2 \in ReadResponsesAfter(r1, modelToApiRequest(plan)) :
            Finish("network_router", "Create", plan,
                   NetworkRouterResourceCreate(client, plan, r1, r2))

UpdateNetworkRouter ==
    /\ CanRun
    /\ tfstate.present
    /\ \E p \in NetworkRouterPlans, r1 \in WriteResponses :
         \E r2 \in ReadResponsesAfter(r1, modelToApiRequest(p)) :
         LET plan == [p EXCEPT !.id = tfstate.id]
         IN Finish("network_router", "Update", plan,
                   NetworkRouterResourceUpdate(client, plan, r1, r2))

NextNetworkRouter == ProviderConfigure \/ CreateNetworkRouter \/ UpdateNetworkRouter

SpecNetworkRouter == Init /\ [][NextNetworkRouter]_vars

\* The data sources: the host reads them with the configuration of the data block

\* a data source Read returns: it is given no prior state, and Terraform has the
\* data only if the Read saved it
FinishDataSource(kind, config, res) ==
    /\ lastOp' = [resource |-> kind, op |-> "Read", prior |-> NoState, plan |-> config,
                  calls |-> res.calls, diags |-> res.diags, outcome |-> res.outcome]
    /\ tfstate' = IF res.outcome = "state_set" THEN res.data ELSE NoState
    /\ UNCHANGED <<environ, providerConfig, configured, providerDiags, client, crashed, inflight>>

\* PeersDataSource.Read, in either of the two versions the source tree holds
ReadPeers ==
    /\ CanRun
    /\ \E name \in {StringNull, StringUnknown, StringValue(""), StringValue("alpha")},
          ip \in {StringNull, StringUnknown, StringValue("100.64.0.1")},
          r1 \in {TransportError, HttpResponse(404, TextBody), HttpResponse(200, ObjectBody),
                  HttpResponse(200, TextBody)}
                   \cup {HttpResponse(200, b) : b \in PeerListBodies} :
         LET config == PeersConfig(name, ip)
         IN \/ FinishDataSource("peers", config, PeersDataSourceRead(client, config, r1))
            \/ FinishDataSource("peers", config, PeersDataSourceReadDirect(client, config, r1))

ReadPeer ==
    /\ CanRun
    /\ \E id \in {StringValue(""), StringValue("p1")},
          r1 \in {TransportError, HttpResponse(404, TextBody), HttpResponse(200, PeerBody),
                  HttpResponse(200, PeersOneBody)} :
         LET config == PeerConfig(id)
         IN FinishDataSource("peer", config, PeerDataSourceRead(client, config, r1))

NextDataSource == ProviderConfigure \/ ReadPeers \/ ReadPeer

SpecDataSource == Init /\ [][NextDataSource]_vars

\* The group resource with its computed attributes: API answers that carry
\* every field of a group, or omit the optional ones

CreateGroup ==
    /\ CanRun
    /\ ~tfstate.present
    /\ \E r1 \in Responses \cup {HttpResponse(200, GroupIssuedBody)} :
         Finish("group", "Create", CreatePlan("group"),
                GroupResourceCreate(client, CreatePlan("group"), r1))

\* the plan of an Update keeps the id of the state (UseStateForUnknown) and has
\* the other computed attributes unknown
UpdateGroup ==
    /\ CanRun
    /\ tfstate.present
    /\ \E r1 \in Responses \cup {HttpResponse(200, GroupIssuedBody)} :
         LET plan == [CreatePlan("group") EXCEPT !.id = tfstate.id]
         IN Finish("group", "Update", plan, GroupResourceUpdate(client, plan, r1))

NextGroup == ProviderConfigure \/ CreateGroup \/ UpdateGroup

SpecGroup == Init /\ [][NextGroup]_vars

\* Import: terraform import calls ImportState and then Read with the state that
\* ImportState left

\* resource.ImportStatePassthroughID(ctx, path.Root("id"), req, resp): the state
\* holds the given id and every other attribute null (a null number or boolean
\* is written as its zero value)
ImportStatePassthroughID(kind, id) ==
    IF kind = "network_router"
    THEN [NetworkRouterPlan(StringNull, ListNull, 0, FALSE, FALSE)
             EXCEPT !.id = StringValue(id), !.network_id = StringNull]
    ELSE [NoState EXCEPT !.present = TRUE, !.kind = kind, !.id = StringValue(id)]

\* ImportState of a network router or of a network resource
ImportState ==
    /\ CanRun
    /\ ~tfstate.present
    /\ \E kind \in {"network_router", "network_resource"}, id \in {"r1", "r2"} :
         Finish(kind, "ImportState", NoState, StateSet(<<>>, ImportStatePassthroughID(kind, id)))

NextImport == ProviderConfigure \/ ImportState \/ Read

SpecImport == Init /\ [][NextImport]_vars

\* Concurrent handlers: the host calls handlers of different resource instances
\* on several goroutines, all holding the one *Client the provider handed over.

\* a handler builds its request and calls doRequest
HandlerBuildsRequest(w) ==
    /\ CanRun
    /\ inflight[w].pc = "idle"
    /\ \E req \in {NewRequest("POST", <<"api", "networks">>),
                   NewRequest("GET", <<"api", "networks", "r1">>),
                   NewRequest("PUT", <<"api", "groups", "r1">>),
                   NewRequest("DELETE", <<"api", "policies", "r1">>)} :
         inflight' = [inflight EXCEPT ![w] = [Idle EXCEPT !.pc = "built", !.req = req]]
    /\ UNCHANGED <<environ, providerConfig, configured, providerDiags, client, tfstate, lastOp,
                   crashed>>

\* doRequest, lines 29-34: set the Authorization header
DoRequestSetsHeader(w) ==
    /\ inflight[w].pc = "built"
    /\ LET written == doRequestHeaders(client, inflight[w].req)
       IN /\ client' = written.s
          /\ inflight' = [inflight EXCEPT ![w].pc = "sent", ![w].req = written.req]
    /\ UNCHANGED <<environ, providerConfig, configured, providerDiags, tfstate, lastOp, crashed>>

\* doRequest, lines 36-49: send, read the body, return
DoRequestReturns(w) ==
    /\ inflight[w].pc = "sent"
    /\ \E resp \in {TransportError, HttpResponse(200, ObjectWithIdBody), HttpResponse(404, TextBody)} :
         inflight' = [inflight EXCEPT ![w].pc = "returned",
                                      ![w].result = doRequest(client, inflight[w].req, resp)]
    /\ UNCHANGED <<environ, providerConfig, configured, providerDiags, client, tfstate, lastOp,
                   crashed>>

\* the handler returns to the host
HandlerReturns(w) ==
    /\ inflight[w].pc = "returned"
    /\ inflight' = [inflight EXCEPT ![w] = Idle]
    /\ UNCHANGED <<environ, providerConfig, configured, providerDiags, client, tfstate, lastOp,
                   crashed>>

NextConcurrent ==
    \/ ProviderConfigure
    \/ \E w \in Goroutines :
          \/ HandlerBuildsRequest(w)
          \/ DoRequestSetsHeader(w)
          \/ DoRequestReturns(w)
          \/ HandlerReturns(w)

SpecConcurrent == Init /\ [][NextConcurrent]_vars

\* the provider root alone, over every provider block and environment
NextProvider == ProviderConfigureAny

SpecProvider == InitWith(Environs) /\ [][NextProvider]_vars

-----------------------------------------------------------------------------
(* Properties *)

Calls == lastOp.calls

OpRan == lastOp.op # "none"

\* NetbirdProvider.Configure reported no error
ProviderAccepted == configured /\ ~HasError(providerDiags)

HttpFailed(call) == call.resp.kind = "http" /\ call.resp.status >= 400

ErrorDetailReported(detail) ==
    \E d \in 1..Len(lastOp.diags) :
        lastOp.diags[d].severity = "error" /\ lastOp.diags[d].detail = detail

StateLeftAlone == tfstate = lastOp.prior /\ lastOp.outcome \notin {"state_set", "state_removed"}

\* C1: doRequest turns a response status >= 400 into (no body, error whose message
\* is the response body) and a status below 400 whose body was read into
\* (that body, no error).
C1_StatusContract ==
    \A i \in 1..Len(Calls) :
        Calls[i].resp.kind = "http" =>
            IF Calls[i].resp.status >= 400
            THEN Calls[i].body.nil /\ ~Calls[i].err.nil /\ Calls[i].err.msg = Calls[i].resp.body
            ELSE ~Calls[i].body.nil /\ Calls[i].body.bytes = Calls[i].resp.body /\ Calls[i].err.nil

C1_Witness ==
    /\ ProviderAccepted
    /\ \E i \in 1..Len(Calls) :
          /\ Calls[i].resp = HttpResponse(400, TextBody)
          /\ Calls[i].err = Errorf(TextBody)

\* C2: a Read whose GET is answered 404 reports no error diagnostic and leaves
\* the entity without an identifier (null id, or no state).
C2_NotFoundClearsId ==
    (/\ ProviderAccepted
     /\ lastOp.op = "Read"
     /\ lastOp.resource \in {"network", "group", "policy", "network_router",
                             "network_resource", "nameserver_group"}
     /\ Len(Calls) >= 1
     /\ Calls[1].method = "GET"
     /\ Calls[1].resp.kind = "http"
     /\ Calls[1].resp.status = 404)
    => (~HasError(lastOp.diags) /\ (~tfstate.present \/ IsNull(tfstate.id)))

\* C3: Configure reports an error diagnostic exactly when the bearer token and
\* the access token it resolved are both empty or both non-empty.
C3_CredentialExclusivity ==
    configured =>
        (HasError(providerDiags) <=> ((client.BearerToken = "") <=> (client.AccessToken = "")))

C3_Witness ==
    /\ configured
    /\ ValueString(providerConfig.bearer_token) = ""
    /\ environ.NETBIRD_BEARER_TOKEN # ""
    /\ ValueString(providerConfig.access_token) # ""
    /\ HasError(providerDiags)

\* the configuration value when it is non-empty, else the environment variable
ConfigThenEnv(configValue, envValue) ==
    IF ValueString(configValue) # "" THEN ValueString(configValue) ELSE envValue

\* C4: the client gets, for endpoint, bearer_token and access_token, the
\* configuration value when non-empty and otherwise the environment variable;
\* an endpoint empty in both becomes https://api.netbird.io.
C4_ConfigBeforeEnvironment ==
    configured =>
        /\ client.BearerToken
             = ConfigThenEnv(providerConfig.bearer_token, environ.NETBIRD_BEARER_TOKEN)
        /\ client.AccessToken
             = ConfigThenEnv(providerConfig.access_token, environ.NETBIRD_ACCESS_TOKEN)
        /\ client.BaseUrl
             = IF ConfigThenEnv(providerConfig.endpoint, environ.NETBIRD_ENDPOINT) = ""
               THEN "https://api.netbird.io"
               ELSE ConfigThenEnv(providerConfig.endpoint, environ.NETBIRD_ENDPOINT)

C4_Witness ==
    /\ configured
    /\ providerConfig.bearer_token = StringValue("cfg-bearer")
    /\ environ.NETBIRD_BEARER_TOKEN = "env-bearer"
    /\ client.BearerToken = "cfg-bearer"
    /\ providerConfig.access_token = StringValue("")
    /\ client.AccessToken = "env-access"
    /\ client.BaseUrl = "https://api.netbird.io"

\* C5: every request sent through doRequest carries an Authorization header made
\* from a token the client holds: "Bearer <bearer token>" or "Token <access token>".
C5_EveryRequestAuthorized ==
    \A i \in 1..Len(Calls) :
        \/ /\ client.BearerToken # ""
           /\ Calls[i].Authorization = Authorization("Bearer", client.BearerToken)
        \/ /\ client.AccessToken # ""
           /\ Calls[i].Authorization = Authorization("Token", client.AccessToken)

\* the handler passes the body of its i-th request to json.Unmarshal: every GET,
\* the first request of a Create, and the PUT of a group or policy Update
DecodesBody(i) ==
    \/ Calls[i].method = "GET"
    \/ lastOp.op = "Create" /\ i = 1
    \/ lastOp.op = "Update" /\ i = 1 /\ lastOp.resource \in {"group", "policy"}

\* C6: when a request fails, or a body the handler decodes is not valid JSON, the
\* handler records an error diagnostic (the raw response body for an HTTP failure,
\* the parse error for a decode failure) and the Terraform state stays as it was.
C6_FailureLeavesState ==
    \A i \in 1..Len(Calls) :
        /\ ~Calls[i].err.nil =>
              /\ StateLeftAlone
              /\ ErrorDetailReported(Calls[i].err.msg)
              /\ HttpFailed(Calls[i]) => ErrorDetailReported(Calls[i].resp.body)
        /\ (Calls[i].err.nil /\ DecodesBody(i) /\ Calls[i].resp.body \in {EmptyBody, TextBody}) =>
              /\ StateLeftAlone
              /\ ErrorDetailReported(jsonUnmarshal(Calls[i].resp.body).err.msg)

C6_Witness ==
    /\ ProviderAccepted
    /\ lastOp.op = "Delete"
    /\ tfstate.present
    /\ HttpFailed(Calls[1])
    /\ Calls[1].resp.body = TextBody

\* C7: whatever the API answers, the handler returns to the host with state
\* written (or removed) or with an error diagnostic; it never aborts the process.
C7_HandlerAlwaysReturns ==
    (ProviderAccepted /\ OpRan)
          => /\ ~crashed
             /\ \/ lastOp.outcome \in {"state_set", "state_removed"}
                \/ HasError(lastOp.diags)

SingleCallHandler ==
    lastOp.op \in {"Read", "Delete"} \/ lastOp.resource \in {"group", "policy"}

\* the first request succeeded and, in a Create, its body gave the handler an id
\* to refresh from
FirstCallAccepted ==
    /\ Calls[1].err.nil
    /\ lastOp.op = "Create" =>
          /\ jsonUnmarshal(Calls[1].resp.body).err.nil
          /\ lastOp.resource \in {"network", "setup_key"} =>
                jsonUnmarshal(Calls[1].resp.body).hasId

FirstMethod == Calls[1].method

Last(path) == path[Len(path)]

\* C9 as stated: Create sends a POST, Read a GET on the path keyed by the
\* entity's ID, Update a PUT, Delete a DELETE.
C9_LifecycleMethods ==
    (ProviderAccepted /\ OpRan) =>
        /\ lastOp.op = "Create" => FirstMethod = "POST"
        /\ lastOp.op = "Read" =>
              FirstMethod = "GET" /\ Last(Calls[1].path) = ValueString(lastOp.prior.id)
        /\ lastOp.op = "Update" => FirstMethod = "PUT"
        /\ lastOp.op = "Delete" => FirstMethod = "DELETE"

\* C9 amended: the mapping holds for every resource but DNS settings, which
\* sends a PUT for Create, Update and Delete and reads the fixed path
\* /api/dns/settings.
C9_LifecycleMethodsButDns ==
    OpRan =>
        IF lastOp.resource = "dns_settings"
        THEN /\ Calls[1].path = <<"api", "dns", "settings">>
             /\ FirstMethod = (IF lastOp.op = "Read" THEN "GET" ELSE "PUT")
        ELSE /\ lastOp.op = "Create" => FirstMethod = "POST"
             /\ lastOp.op = "Read" =>
                   FirstMethod = "GET" /\ Last(Calls[1].path) = ValueString(lastOp.prior.id)
             /\ lastOp.op = "Update" => FirstMethod = "PUT"
             /\ lastOp.op = "Delete" => FirstMethod = "DELETE"

C9_Witness ==
    /\ ProviderAccepted
    /\ lastOp.resource = "dns_settings"
    /\ lastOp.op = "Delete"
    /\ FirstMethod = "PUT"
    /\ lastOp.outcome = "state_removed"

\* C10: within one handler no request is sent twice, and no request follows a
\* failed one.
C10_NothingRetried ==
    /\ \A i, j \in 1..Len(Calls) :
          i < j => <<Calls[i].method, Calls[i].path>> # <<Calls[j].method, Calls[j].path>>
    /\ \A i \in 1..Len(Calls) : ~Calls[i].err.nil => i = Len(Calls)

C10_Witness ==
    /\ ProviderAccepted
    /\ lastOp.op = "Update"
    /\ Len(Calls) = 1
    /\ HttpFailed(Calls[1])
    /\ lastOp.outcome = "error"

\* C11: once the provider is configured no step of any goroutine changes the
\* shared client's base URL, bearer token or access token, and the doRequest step
\* of a goroutine changes nothing but the request that goroutine handed to it.
C11_ClientNeverModified ==
    [][/\ configured => client' = client
       /\ \A w \in Goroutines :
             (inflight[w].pc = "built" /\ inflight'[w].pc = "sent") =>
                 /\ \A v \in Goroutines \ {w} : inflight'[v] = inflight[v]
                 /\ inflight'[w].result = inflight[w].result
                 /\ inflight'[w].req.method = inflight[w].req.method
                 /\ inflight'[w].req.path = inflight[w].req.path
                 /\ <<environ, providerConfig, configured, providerDiags, client, tfstate,
                      lastOp, crashed>>'
                      = <<environ, providerConfig, configured, providerDiags, client, tfstate,
                          lastOp, crashed>>]_vars

C11_Witness ==
    /\ ProviderAccepted
    /\ client.AccessToken # ""
    /\ inflight[1].pc = "sent"
    /\ inflight[2].pc = "returned"
    /\ inflight[1].req.path # inflight[2].req.path
    /\ inflight[1].req.Authorization = Authorization("Token", client.AccessToken)
    /\ inflight[2].result.Authorization = Authorization("Token", client.AccessToken)

\* C12: after a successful Read of a network the description in state is the one
\* the API returned, except that an absent or empty API description leaves an
\* empty or null local description as it was.
C12_DescriptionReflectsApi ==
    (ProviderAccepted /\ lastOp.resource = "network" /\ lastOp.op = "Read"
       /\ lastOp.outcome = "state_set") =>
        LET api == jsonUnmarshalNetwork(Calls[1].resp.body).Description
        IN IF (api.nil \/ api.v = "") /\ ValueString(lastOp.prior.description) = ""
           THEN tfstate.description = lastOp.prior.description
           ELSE IF api.nil THEN ValueString(tfstate.description) = ""
           ELSE tfstate.description = StringValue(api.v)

\* the request of a policy Create or Update was built and sent
PolicyRequestSent ==
    /\ ProviderAccepted
    /\ lastOp.resource = "policy"
    /\ lastOp.op \in {"Create", "Update"}
    /\ Len(Calls) >= 1

\* C13: the request body of a policy Create or Update has one API rule for every
\* rule of the plan, in the plan's order.
C13_OneApiRulePerPlanRule ==
    PolicyRequestSent =>
        /\ Len(Calls[1].reqBody.Rules) = Len(lastOp.plan.rules)
        /\ \A i \in 1..Len(lastOp.plan.rules) :
              Calls[1].reqBody.Rules[i].Name = lastOp.plan.rules[i].name

\* C14: every rule sent to the API has its source_resource built from the plan
\* rule's source_resource and its destination_resource from the plan rule's
\* destination_resource, each absent exactly when absent in the plan rule.
C14_ResourcesMappedFromOwnField ==
    PolicyRequestSent =>
        \A i \in 1..Len(Calls[1].reqBody.Rules) :
            /\ Calls[1].reqBody.Rules[i].SourceResource = lastOp.plan.rules[i].source_resource
            /\ Calls[1].reqBody.Rules[i].DestinationResource
                  = lastOp.plan.rules[i].destination_resource

\* C15: no request of a network-router Create or Update carries both a peer and
\* a non-empty peer_groups list, and a plan that sets both is rejected with an
\* error before anything is sent.
C15_PeerExcludesPeerGroups ==
    (ProviderAccepted /\ lastOp.resource = "network_router"
       /\ lastOp.op \in {"Create", "Update"}) =>
        /\ \A i \in 1..Len(Calls) :
              Calls[i].method \in {"POST", "PUT"} =>
                  ~(/\ ~Calls[i].reqBody.Peer.nil
                    /\ Calls[i].reqBody.Peer.v # ""
                    /\ Len(Calls[i].reqBody.PeerGroups) > 0)
        /\ (ValueString(lastOp.plan.peer) # "" /\ Len(lastOp.plan.peer_groups.elems) > 0) =>
              (HasError(lastOp.diags) /\ Len(Calls) = 0)

\* the request of a peers data source Read
PeersRequestSent ==
    /\ ProviderAccepted
    /\ lastOp.resource = "peers"
    /\ Len(Calls) = 1

\* an argument of a data block is set: neither null nor unknown
IsSet(x) == x.k = "value"

\* the query carries the parameter key exactly when the argument is set, with
\* the argument's value
CarriesExactly(query, key, argument) ==
    /\ IsSet(argument) <=> \E i \in 1..Len(query) : query[i][1] = key
    /\ \A i \in 1..Len(query) : query[i][1] = key => query[i][2] = argument.v

\* C16: the GET to /api/peers carries the query parameter name exactly when name
\* is set and ip exactly when ip is set, each with the configured value; with
\* neither set there is no query string.
C16_QueryFromArguments ==
    PeersRequestSent =>
        /\ Calls[1].method = "GET"
        /\ Calls[1].path = <<"api", "peers">>
        /\ CarriesExactly(Calls[1].query, "name", lastOp.plan.name)
        /\ CarriesExactly(Calls[1].query, "ip", lastOp.plan.ip)
        /\ (~IsSet(lastOp.plan.name) /\ ~IsSet(lastOp.plan.ip)) => Calls[1].query = <<>>

\* C17: for any peer list the API returns, the saved peers attribute has one
\* element per returned peer, in the API's order, with that peer's id, name, ip
\* and groups, a group without issued getting the empty string.
C17_OnePeerPerReturnedPeer ==
    (/\ PeersRequestSent
     /\ Calls[1].err.nil
     /\ Calls[1].resp.body \in PeerListBodies) =>
        LET returned == jsonUnmarshalPeerBatchList(Calls[1].resp.body).list
        IN /\ lastOp.outcome = "state_set"
           /\ Len(tfstate.peers) = Len(returned)
           /\ \A i \in 1..Len(returned) :
                 /\ tfstate.peers[i].id = StringValue(returned[i].Id)
                 /\ tfstate.peers[i].name = StringValue(returned[i].Name)
                 /\ tfstate.peers[i].ip = StringValue(returned[i].Ip)
                 /\ Len(tfstate.peers[i].groups) = Len(returned[i].Groups)
                 /\ \A g \in 1..Len(returned[i].Groups) :
                       /\ tfstate.peers[i].groups[g].id = StringValue(returned[i].Groups[g].Id)
                       /\ tfstate.peers[i].groups[g].issued
                             = StringValue(IF returned[i].Groups[g].Issued.nil THEN ""
                                           ELSE returned[i].Groups[g].Issued.v)

\* C18: a peer data source Read given an empty or null id reports the attribute
\* error "ID is invalid" on the id attribute.
C18_EmptyIdReported ==
    (/\ ProviderAccepted
     /\ lastOp.resource = "peer"
     /\ lastOp.op = "Read"
     /\ ValueString(lastOp.plan.id) = "") =>
        \E d \in 1..Len(lastOp.diags) :
            /\ lastOp.diags[d].summary = "ID is invalid"
            /\ "path" \in DOMAIN lastOp.diags[d]
            /\ lastOp.diags[d].path = "id"

\* C19: every managed entity (network, group, policy, network router, network
\* resource, nameserver group, setup key, DNS settings) has its resource in the
\* list the provider the host has configured registers, and the peer and peers
\* data sources are in its registered data-source list.
C19_EveryEntityRegistered ==
    configured =>
        /\ \A kind \in {"network", "group", "policy", "network_router", "network_resource",
                         "nameserver_group", "setup_key", "dns_settings"} : kind \in Resources
        /\ "peer" \in DataSources
        /\ "peers" \in DataSources

C21_CreateLeavesNoOrphan ==
    (/\ ProviderAccepted
     /\ lastOp.op = "Create"
     /\ lastOp.resource \in {"network", "network_router", "network_resource", "nameserver_group"}
     /\ HasError(lastOp.diags))
        => \A i \in 1..Len(Calls) :
              ~(Calls[i].method = "POST" /\ Calls[i].err.nil /\ Calls[i].resp.body = ObjectWithIdBody)

\* C22: the Read that follows ImportState of a network router or a network
\* resource sends its GET to /api/networks/{network_id}/..., with the non-empty
\* network_id of the network that owns the entity.
C22_ReadAfterImportNamesNetwork ==
    [][(/\ ProviderAccepted
        /\ lastOp.op = "ImportState"
        /\ lastOp'.op = "Read")
          => /\ Len(lastOp'.calls) >= 1
             /\ lastOp'.calls[1].method = "GET"
             /\ lastOp'.calls[1].path[1] = "api"
             /\ lastOp'.calls[1].path[2] = "networks"
             /\ lastOp'.calls[1].path[3] # ""]_vars

\* the API answered the GET of a network-router Create with the router exactly
\* as the POST sent it
RouterEchoed ==
    /\ ProviderAccepted
    /\ lastOp.resource = "network_router"
    /\ lastOp.op = "Create"
    /\ Len(Calls) = 2
    /\ Calls[2].err.nil
    /\ Calls[2].resp.body = jsonMarshalNetworkRouter(Calls[1].reqBody)

\* C23: when the API stores and returns exactly what it was sent, a network-router
\* Create succeeds and the saved state equals the plan on peer, peer_groups,
\* metric, masquerade and enabled.
C23_RouterStateEqualsPlan ==
    RouterEchoed =>
        /\ lastOp.outcome = "state_set"
        /\ tfstate.peer = lastOp.plan.peer
        /\ tfstate.peer_groups = lastOp.plan.peer_groups
        /\ tfstate.metric = lastOp.plan.metric
        /\ tfstate.masquerade = lastOp.plan.masquerade
        /\ tfstate.enabled = lastOp.plan.enabled

\* C24: after a successful Create or Update of a group, none of the computed
\* attributes id, peers_count, resources_count and issued of the saved state is
\* unknown, whichever optional fields the API response omits.
C24_NoComputedLeftUnknown ==
    (/\ ProviderAccepted
     /\ lastOp.resource = "group"
     /\ lastOp.op \in {"Create", "Update"}
     /\ lastOp.outcome = "state_set")
        => /\ tfstate.id.k # "unknown"
           /\ tfstate.peers_count.k # "unknown"
           /\ tfstate.resources_count.k # "unknown"
           /\ tfstate.issued.k # "unknown"

\* C25: when Configure reported a credential error (no token resolved, or both
\* resolved), resources and data sources were handed no client, and no resource
\* operation has sent a request.
C25_NoClientAfterCredentialError ==
    (configured /\ HasError(providerDiags)) => (client.nil /\ Len(Calls) = 0)

====
